---- MODULE Spec2Model ----
(***************************************************************************)
(* Model of risk_analysis.py: the keyword risk scorer for WhatsApp-style   *)
(* conversations (extract_user_text, _keyword_score, risk_level, the two   *)
(* recommendation generators and analyse_conversation).                    *)
(*                                                                         *)
(* Python str values are TLA+ strings, indexed with SubSeq.  Python float  *)
(* values are IEEE-754 doubles, kept exactly as three limbs <<a, b, c>>    *)
(* standing for (a * 2^38 + b * 2^19 + c) * 2^-55, with round-to-nearest-  *)
(* even after every operation.  The representation covers 0 and the        *)
(* doubles in [0.125, 4), which is where every weight, threshold and sum   *)
(* of the program lies.                                                    *)
(***************************************************************************)
EXTENDS Integers, Sequences, FiniteSets, TLC

VARIABLES pc, conversation, user_text, hiv_score, mh_score, result, arg, ret,
          hiv_triggered, mh_triggered

vars == <<pc, conversation, user_text, hiv_score, mh_score, result, arg, ret,
          hiv_triggered, mh_triggered>>

(***************************************************************************)
(* Bounds of the model.                                                    *)
(***************************************************************************)
MaxLines == 2
MaxConversationId == 0
MaxScore == 120
MaxUlps == 1
MaxPhrases == 4

(***************************************************************************)
(* IEEE-754 double arithmetic.                                             *)
(***************************************************************************)
Base == 524288
MantBits == 32768

Carry(x3) ==
  LET c0 == x3[3] \div Base
      l1 == x3[2] + c0
      c1 == l1 \div Base
  IN <<x3[1] + c1, l1 % Base, x3[3] % Base>>

(* number of 2^-55 units in one ulp of the binade q lies in *)
UlpUnits(q) ==
  IF q[1] < MantBits THEN 1
  ELSE IF q[1] < 2 * MantBits THEN 2
  ELSE IF q[1] < 4 * MantBits THEN 4
  ELSE IF q[1] < 8 * MantBits THEN 8
  ELSE 16

(* the double nearest to q + rem/den units, ties to even *)
RoundNearestEven(q, rem, den) ==
  LET u == UlpUnits(q)
      low == q[3] % u
      twice == 2 * (low * den + rem)
      odd == ((q[3] \div u) % 2) = 1
      up == twice > u * den \/ (twice = u * den /\ odd)
  IN IF up THEN Carry(<<q[1], q[2], q[3] - low + u>>)
           ELSE <<q[1], q[2], q[3] - low>>

FAdd(a, b) ==
  RoundNearestEven(Carry(<<a[1] + b[1], a[2] + b[2], a[3] + b[3]>>), 0, 1)

FLess(a, b) ==
  \/ a[1] < b[1]
  \/ a[1] = b[1] /\ a[2] < b[2]
  \/ a[1] = b[1] /\ a[2] = b[2] /\ a[3] < b[3]

FLeq(a, b) == ~FLess(b, a)

FMin(a, b) == IF FLess(b, a) THEN b ELSE a

(* the double a decimal literal h/100 denotes (0.45 is Float(45)) *)
Float(h) ==
  LET n2 == h * MantBits
      q2 == n2 \div 25
      r2 == n2 % 25
      q1 == (r2 * Base) \div 25
      r1 == (r2 * Base) % 25
      q0 == (r1 * Base) \div 25
      r0 == (r1 * Base) % 25
  IN RoundNearestEven(<<q2, q1, q0>>, r0, 25)

(* the integer nearest to 100 * x, ties to even *)
NearestHundredth(x) ==
  LET t == Carry(<<x[1] * 25, x[2] * 25, x[3] * 25>>)
      h == t[1] \div MantBits
      rem == <<t[1] % MantBits, t[2], t[3]>>
      half == <<MantBits \div 2, 0, 0>>
  IN IF FLess(half, rem) \/ (rem = half /\ h % 2 = 1) THEN h + 1 ELSE h

(* x cut to two decimals instead of rounded *)
TruncatedRound2(x) ==
  LET t == Carry(<<x[1] * 25, x[2] * 25, x[3] * 25>>)
  IN Float(t[1] \div MantBits)
(* the built-in round(x, 2) *)
Round2(x) == Float(NearestHundredth(x))

(***************************************************************************)
(* Python str operations.                                                  *)
(***************************************************************************)
UpperChars == "ABCDEFGHIJKLMNOPQRSTUVWXYZ"
LowerChars == "abcdefghijklmnopqrstuvwxyz"
Whitespace == {" ", "\t", "\n", "\r", "\f"}
LineBreaks == {"\n", "\r", "\f"}

CharAt(s, i) == SubSeq(s, i, i)

LowerOf ==
  [c \in {CharAt(UpperChars, i) : i \in 1..Len(UpperChars)} |->
     CharAt(LowerChars, CHOOSE i \in 1..Len(UpperChars) : CharAt(UpperChars, i) = c)]

LowerChar(c) == IF c \in DOMAIN LowerOf THEN LowerOf[c] ELSE c

RECURSIVE LowerRange(_, _, _)
LowerRange(s, i, j) ==
  IF i > j THEN ""
  ELSE IF i = j THEN LowerChar(CharAt(s, i))
  ELSE LowerRange(s, i, (i + j) \div 2) \o LowerRange(s, (i + j) \div 2 + 1, j)

(* str.lower() *)
Lower(s) == LowerRange(s, 1, Len(s))

Least(S) == CHOOSE i \in S : \A j \in S : i <= j
Greatest(S) == CHOOSE i \in S : \A j \in S : j <= i

(* str.strip() *)
Strip(s) ==
  LET kept == {i \in 1..Len(s) : CharAt(s, i) \notin Whitespace}
  IN IF kept = {} THEN "" ELSE SubSeq(s, Least(kept), Greatest(kept))

(* sub in s *)
Occurrences(s, sub) ==
  {i \in 1..(Len(s) - Len(sub) + 1) : SubSeq(s, i, i + Len(sub) - 1) = sub}
Contains(s, sub) == Occurrences(s, sub) # {}

(* s.split(sep, 1)[1] *)
SplitOnce(s, sep) ==
  LET i == Least(Occurrences(s, sep))
  IN SubSeq(s, i + Len(sep), Len(s))

(* str.splitlines(), for the line boundaries \n, \r, \r\n and \f *)
RECURSIVE SplitLinesFrom(_, _)
SplitLinesFrom(s, start) ==
  LET breaks == {i \in start..Len(s) : CharAt(s, i) \in LineBreaks}
  IN IF start > Len(s) THEN <<>>
     ELSE IF breaks = {} THEN <<SubSeq(s, start, Len(s))>>
     ELSE LET i == Least(breaks)
              n == IF CharAt(s, i) = "\r" /\ i < Len(s) /\ CharAt(s, i + 1) = "\n"
                   THEN i + 2 ELSE i + 1
          IN <<SubSeq(s, start, i - 1)>> \o SplitLinesFrom(s, n)
SplitLines(s) == SplitLinesFrom(s, 1)

(* " ".join(parts) *)
RECURSIVE Join(_)
Join(parts) ==
  IF parts = <<>> THEN ""
  ELSE IF Len(parts) = 1 THEN parts[1]
  ELSE parts[1] \o " " \o Join(Tail(parts))

(***************************************************************************)
(* Regular expressions.  A pattern is a syntax tree; Ends(r, s, P) is the  *)
(* set of positions at which a match of r that starts at a position of P   *)
(* can end.                                                                *)
(***************************************************************************)
Lit(s) == <<"lit", s>>
Dot == <<"dot">>
Opt(r) == <<"opt", r>>
DotStar == <<"dotstar">>
Alt(rs) == <<"alt", rs>>
Cat(rs) == <<"cat", rs>>

RECURSIVE Ends(_, _, _)
RECURSIVE CatEnds(_, _, _, _)
Ends(r, s, P) ==
  IF P = {} THEN {}
  ELSE IF r[1] = "lit"
  THEN {p + Len(r[2]) : p \in {q \in P : q + Len(r[2]) - 1 <= Len(s)
                                        /\ SubSeq(s, q, q + Len(r[2]) - 1) = r[2]}}
  ELSE IF r[1] = "dot"
  THEN {p + 1 : p \in {q \in P : q <= Len(s) /\ CharAt(s, q) # "\n"}}
  ELSE IF r[1] = "opt" THEN P \cup Ends(r[2], s, P)
  ELSE IF r[1] = "dotstar"
  THEN LET newlines == {k \in 1..Len(s) : CharAt(s, k) = "\n"}
       IN {j \in 1..(Len(s) + 1) :
             \E p \in P : p <= j /\ \A k \in newlines : k < p \/ k >= j}
  ELSE IF r[1] = "alt" THEN UNION {Ends(r[2][i], s, P) : i \in DOMAIN r[2]}
  ELSE CatEnds(r[2], 1, s, P)
CatEnds(rs, i, s, P) ==
  IF i > Len(rs) THEN P ELSE CatEnds(rs, i + 1, s, Ends(rs[i], s, P))

(* re.search(pat, text) is not None *)
Search(pat, text) == Ends(pat, text, 1..(Len(text) + 1)) # {}

(***************************************************************************)
(* Keyword dictionaries.  A dictionary is the sequence of its items in     *)
(* insertion order; weights are in hundredths and become doubles with      *)
(* Float.                                                                  *)
(***************************************************************************)
HIV_KEYWORDS ==
  << [name |-> "unprotected_sex", weight |-> Float(45), patterns |-> <<
        Lit("without a condom"),
        Lit("no condom"),
        Cat(<<Lit("didn"), Opt(Dot), Lit("t use "), Opt(Lit("a ")), Lit("condom")>>),
        Lit("condom broke"),
        Lit("condom slipped") >>],
     [name |-> "sti_symptoms", weight |-> Float(25), patterns |-> <<
        Cat(<<Lit("genital "), Alt(<<Lit("sore"), Lit("sores"), Lit("ulcer"),
                                     Lit("ulcers"), Lit("blister"), Lit("blisters")>>)>>),
        Cat(<<Lit("burn"), Opt(Alt(<<Lit("s"), Lit("ing")>>)), Lit(" when "),
              Opt(Lit("i ")), Lit("pee")>>),
        Lit("penile discharge"),
        Lit("vaginal discharge"),
        Lit("smelly discharge") >>],
     [name |-> "multiple_partners", weight |-> Float(15), patterns |-> <<
        Cat(<<Lit("multiple partner"), Opt(Lit("s"))>>),
        Cat(<<Lit("more than one "), Alt(<<Lit("guy"), Lit("girl"), Lit("partner")>>)>>),
        Cat(<<Lit("one"), Opt(Dot), Lit("night stand")>>),
        Cat(<<Lit("hook"), Opt(Dot), Lit("up")>>),
        Lit("cheated"),
        Lit("affair"),
        Lit("sex worker") >>],
     [name |-> "partner_hiv_positive_or_unknown", weight |-> Float(25), patterns |-> <<
        Cat(<<Lit("partner"), DotStar, Alt(<<Lit("hiv+"), Lit("hiv positive")>>)>>),
        Cat(<<Lit("on "), Alt(<<Lit("arvs"), Lit("art")>>)>>),
        Cat(<<Lit("don"), Opt(Dot), Lit("t know"), DotStar, Lit("partner"),
              Opt(Dot), Opt(Lit("s")), Lit(" status")>>) >>] >>

MH_KEYWORDS ==
  << [name |-> "depression", weight |-> Float(25), patterns |-> <<
        Cat(<<Alt(<<Lit("i feel"), Lit("feeling")>>), Lit(" "),
              Alt(<<Lit("sad"), Lit("down"), Lit("empty"), Lit("numb")>>)>>),
        Lit("lost interest"),
        Lit("no energy"),
        Lit("tired of life"),
        Lit("worthless") >>],
     [name |-> "anxiety", weight |-> Float(20), patterns |-> <<
        Lit("anxious"),
        Lit("anxiety"),
        Lit("panic attack"),
        Cat(<<Lit("heart"), DotStar, Lit("racing")>>) >>],
     [name |-> "suicidality_or_self_harm", weight |-> Float(60), patterns |-> <<
        Lit("kill myself"),
        Lit("end it all"),
        Cat(<<Lit("don"), Opt(Dot), Lit("t want to live")>>),
        Lit("rather be dead"),
        Lit("suicide") >>],
     [name |-> "substance_use", weight |-> Float(15), patterns |-> <<
        Lit("drinking a lot"),
        Cat(<<Lit("using "), Alt(<<Lit("weed"), Lit("dagga"), Lit("marijuana"),
                                   Lit("drugs")>>)>>) >>] >>

(***************************************************************************)
(* Scoring functions.                                                      *)
(***************************************************************************)
(* any(re.search(pat, text) for pat in cfg["patterns"]) *)
AnyPatternMatches(cfg, text) ==
  \E i \in DOMAIN cfg.patterns : Search(cfg.patterns[i], text)

(* the number of patterns of cfg that match *)
MatchCount(cfg, text) ==
  Cardinality({i \in DOMAIN cfg.patterns : Search(cfg.patterns[i], text)})

RECURSIVE ScoreLoop(_, _, _, _)
ScoreLoop(keyword_dict, i, text, score) ==
  IF i > Len(keyword_dict) THEN score
  ELSE ScoreLoop(keyword_dict, i + 1, text,
                 IF AnyPatternMatches(keyword_dict[i], text)
                 THEN FAdd(score, keyword_dict[i].weight)
                 ELSE score)

(* the loop of _keyword_score if a weight were added for each matching rule *)
RECURSIVE PerPatternScoreLoop(_, _, _, _)
PerPatternScoreLoop(keyword_dict, i, text, score) ==
  IF i > Len(keyword_dict) THEN score
  ELSE PerPatternScoreLoop(keyword_dict, i + 1, text,
         IF MatchCount(keyword_dict[i], text) = 0 THEN score
         ELSE IF MatchCount(keyword_dict[i], text) = 1
              THEN FAdd(score, keyword_dict[i].weight)
              ELSE FAdd(FAdd(score, keyword_dict[i].weight), keyword_dict[i].weight))

(* the loop of _keyword_score if it stopped at the first triggered category *)
RECURSIVE FirstMatchScoreLoop(_, _, _, _)
FirstMatchScoreLoop(keyword_dict, i, text, score) ==
  IF i > Len(keyword_dict) THEN score
  ELSE IF AnyPatternMatches(keyword_dict[i], text)
       THEN FAdd(score, keyword_dict[i].weight)
       ELSE FirstMatchScoreLoop(keyword_dict, i + 1, text, score)

FirstMatchKeywordScore(text, keyword_dict) ==
  FMin(FirstMatchScoreLoop(keyword_dict, 1, Lower(text), Float(0)), Float(100))
(* _keyword_score without the final min(score, 1.0) *)
UnclampedKeywordScore(text, keyword_dict) ==
  ScoreLoop(keyword_dict, 1, Lower(text), Float(0))
PerPatternKeywordScore(text, keyword_dict) ==
  FMin(PerPatternScoreLoop(keyword_dict, 1, Lower(text), Float(0)), Float(100))
_keyword_score(text, keyword_dict) ==
  FMin(ScoreLoop(keyword_dict, 1, Lower(text), Float(0)), Float(100))

compute_hiv_risk(text) == _keyword_score(text, HIV_KEYWORDS)

(* compute_mental_health_risk if it were given the HIV dictionary *)
HivCatalogMentalHealthRisk(text) == _keyword_score(text, HIV_KEYWORDS)
compute_mental_health_risk(text) == _keyword_score(text, MH_KEYWORDS)

(* risk_level if 0.6 itself were still "moderate" *)
InclusiveRiskLevel(score) ==
  IF FLess(score, Float(30)) THEN "low"
  ELSE IF FLeq(score, Float(60)) THEN "moderate"
  ELSE "high"
risk_level(score) ==
  IF FLess(score, Float(30)) THEN "low"
  ELSE IF FLess(score, Float(60)) THEN "moderate"
  ELSE "high"

(***************************************************************************)
(* Recommendations.                                                        *)
(***************************************************************************)
HivLow == "HIV risk low. Recommend routine HIV testing, consistent condom use, and STI prevention."
HivModerate == "Moderate HIV risk. Recommend prompt HIV testing, STI screening, and assessment for PEP if exposure was within 72 hours."
HivHigh == "High HIV risk. Immediate clinical assessment advised. Evaluate for PEP, STI screening, pregnancy screening if applicable, and urgent HIV testing."
MhLow == "Low mental health risk. Provide psychoeducation, stress management, and routine monitoring."
MhModerate == "Moderate mental health risk. Recommend clinic-based mental health assessment and counselling support."
MhHigh == "High mental health risk. Urgent same-day mental health assessment advised, including screening for suicidality or self-harm."

generate_hiv_recommendation(score) ==
  LET level == risk_level(score)
  IN IF level = "low" THEN HivLow
     ELSE IF level = "moderate" THEN HivModerate
     ELSE HivHigh

generate_mental_health_recommendation(score) ==
  LET level == risk_level(score)
  IN IF level = "low" THEN MhLow
     ELSE IF level = "moderate" THEN MhModerate
     ELSE MhHigh

(***************************************************************************)
(* Load and parse conversations.                                           *)
(***************************************************************************)
(* the loop of extract_user_text if lines without the marker were kept too *)
RECURSIVE KeepAllLinesExtractLoop(_, _)
KeepAllLinesExtractLoop(lines, i) ==
  IF i > Len(lines) THEN <<>>
  ELSE LET line == Strip(lines[i])
       IN IF Contains(line, "] User:")
          THEN <<Strip(SplitOnce(line, "] User:"))>> \o KeepAllLinesExtractLoop(lines, i + 1)
          ELSE IF Contains(line, "User:")
          THEN <<Strip(SplitOnce(line, "User:"))>> \o KeepAllLinesExtractLoop(lines, i + 1)
          ELSE <<line>> \o KeepAllLinesExtractLoop(lines, i + 1)

RECURSIVE ExtractLoop(_, _)
ExtractLoop(lines, i) ==
  IF i > Len(lines) THEN <<>>
  ELSE LET line == Strip(lines[i])
       IN IF Contains(line, "] User:")
          THEN <<Strip(SplitOnce(line, "] User:"))>> \o ExtractLoop(lines, i + 1)
          ELSE IF Contains(line, "User:")
          THEN <<Strip(SplitOnce(line, "User:"))>> \o ExtractLoop(lines, i + 1)
          ELSE ExtractLoop(lines, i + 1)

extract_user_text(conv) == Join(ExtractLoop(SplitLines(conv), 1))

(***************************************************************************)
(* Conversation analysis function.                                         *)
(***************************************************************************)
(* the record analyse_conversation builds from its locals hiv_score, mh_score *)
ConversationRiskResult(conversation_id, hiv, mh) ==
  [conversation_id |-> conversation_id,
   hiv_risk_score |-> Round2(hiv),
   hiv_risk_level |-> risk_level(hiv),
   mental_health_risk_score |-> Round2(mh),
   mental_health_risk_level |-> risk_level(mh),
   hiv_recommendation |-> generate_hiv_recommendation(hiv),
   mental_health_recommendation |-> generate_mental_health_recommendation(mh)]

(***************************************************************************)
(* The main pipeline: a conversation of the input file is any sequence of  *)
(* at most MaxLines lines of Lines; each conversation is analysed once and *)
(* the loop moves on to the next one.  hiv_triggered and mh_triggered      *)
(* record the categories for which the condition of the loop of            *)
(* _keyword_score held during the analysis.                                *)
(***************************************************************************)
(* the names of the categories of keyword_dict whose any(...) holds on text *)
TriggeredNames(keyword_dict, text) ==
  {keyword_dict[i].name :
     i \in {j \in DOMAIN keyword_dict : AnyPatternMatches(keyword_dict[j], Lower(text))}}

Lines ==
  << "[12:01] User: we had sex without a condom and now I have a genital sore",
     "User: I had a one-night stand, and I don't know my partner's status",
     "[12:02] Bot: Did you have sex with no condom?",
     "  [12:03] User:   I Feel SAD and ANXIOUS  ",
     "User: sometimes I want to end it all",
     "[12:05] User: I've been drinking a lot",
     "User: I'm using dagga and thinking about suicide",
     "User: racing thoughts, no energy",
     "User: see [note] User: the condom broke",
     "User:",
     "User: it burns when I pee",
     "User: he cheated on me",
     "[12:07] User: my partner is HIV+",
     "User: I've been feeling really anxious lately" >>

NoResult ==
  [conversation_id |-> -1,
   hiv_risk_score |-> Float(0), hiv_risk_level |-> "",
   mental_health_risk_score |-> Float(0), mental_health_risk_level |-> "",
   hiv_recommendation |-> "", mental_health_recommendation |-> ""]
NoArg == [fn |-> "", keyword_dict |-> "", text1 |-> "", text2 |-> "", h |-> 0, d |-> 0]
NoRet == [fn |-> "", level |-> "", message |-> "", score1 |-> Float(0), score2 |-> Float(0)]

Init ==
  /\ pc = "input"
  /\ conversation = ""
  /\ user_text = ""
  /\ hiv_score = Float(0)
  /\ mh_score = Float(0)
  /\ result = NoResult
  /\ arg = NoArg
  /\ ret = NoRet
  /\ hiv_triggered = {}
  /\ mh_triggered = {}

AddLine(l) ==
  /\ pc = "input"
  /\ Len(SplitLines(conversation)) < MaxLines
  /\ conversation' = IF conversation = "" THEN l ELSE conversation \o "\n" \o l
  /\ UNCHANGED <<pc, user_text, hiv_score, mh_score, result, arg, ret,
                 hiv_triggered, mh_triggered>>

Analyse(id) ==
  /\ pc = "input"
  /\ pc' = "done"
  /\ user_text' = extract_user_text(conversation)
  /\ hiv_score' = compute_hiv_risk(user_text')
  /\ mh_score' = compute_mental_health_risk(user_text')
  /\ result' = ConversationRiskResult(id, hiv_score', mh_score')
  /\ hiv_triggered' = TriggeredNames(HIV_KEYWORDS, user_text')
  /\ mh_triggered' = TriggeredNames(MH_KEYWORDS, user_text')
  /\ UNCHANGED <<conversation, arg, ret>>

NextConversation ==
  /\ pc = "done"
  /\ pc' = "input"
  /\ conversation' = ""
  /\ user_text' = ""
  /\ hiv_score' = Float(0)
  /\ mh_score' = Float(0)
  /\ result' = NoResult
  /\ hiv_triggered' = {}
  /\ mh_triggered' = {}
  /\ UNCHANGED <<arg, ret>>

Next ==
  \/ \E i \in DOMAIN Lines : AddLine(Lines[i])
  \/ \E id \in 0..MaxConversationId : Analyse(id)
  \/ NextConversation

Spec == Init /\ [][Next]_vars

(***************************************************************************)
(* risk_level and the recommendation generators as functions of the score: *)
(* the score is the double of h/100 moved by d ulps.                       *)
(***************************************************************************)
ScoreGrid == {0} \cup 13..MaxScore

Nudge(x, d) == Carry(<<x[1], x[2], x[3] + d * UlpUnits(x)>>)

ScoreOf(a) == Nudge(Float(a.h), a.d)

LevelInputs ==
  {[NoArg EXCEPT !.fn = "risk_level", !.h = hd[1], !.d = hd[2]] :
     hd \in {x \in ScoreGrid \X ((0 - MaxUlps)..MaxUlps) : x[1] > 0 \/ x[2] >= 0}}

InitLevel ==
  /\ pc = "level_input"
  /\ arg \in LevelInputs
  /\ conversation = ""
  /\ user_text = ""
  /\ hiv_score = Float(0)
  /\ mh_score = Float(0)
  /\ result = NoResult
  /\ ret = NoRet
  /\ hiv_triggered = {}
  /\ mh_triggered = {}

ClassifyLevel ==
  /\ pc = "level_input"
  /\ pc' = "level_done"
  /\ ret' = [NoRet EXCEPT !.fn = "risk_level", !.level = risk_level(ScoreOf(arg))]
  /\ UNCHANGED <<conversation, user_text, hiv_score, mh_score, result, arg,
                 hiv_triggered, mh_triggered>>

RecommendHiv ==
  /\ pc = "level_input"
  /\ pc' = "level_done"
  /\ ret' = [NoRet EXCEPT !.fn = "generate_hiv_recommendation",
                          !.message = generate_hiv_recommendation(ScoreOf(arg))]
  /\ UNCHANGED <<conversation, user_text, hiv_score, mh_score, result, arg,
                 hiv_triggered, mh_triggered>>

RecommendMentalHealth ==
  /\ pc = "level_input"
  /\ pc' = "level_done"
  /\ ret' = [NoRet EXCEPT !.fn = "generate_mental_health_recommendation",
                          !.message = generate_mental_health_recommendation(ScoreOf(arg))]
  /\ UNCHANGED <<conversation, user_text, hiv_score, mh_score, result, arg,
                 hiv_triggered, mh_triggered>>

NextLevel == ClassifyLevel \/ RecommendHiv \/ RecommendMentalHealth

SpecLevel == InitLevel /\ [][NextLevel]_vars

(***************************************************************************)
(* _keyword_score as a function of (text, keyword_dict), applied to two    *)
(* texts under the same dictionary.  The dictionaries are the two of the   *)
(* module and three that a configuration could hold instead.               *)
(***************************************************************************)
Phrases ==
  [hiv |-> << "we had sex WITHOUT a condom", "it burns when I pee",
              "I had a hook-up", "my partner is on ARVs", "I feel sad" >>,
   mh |-> << "I lost interest in everything", "I get panic attacks",
             "I'd rather be dead", "I'm using drugs", "the condom slipped" >>]

RECURSIVE SelectFrom(_, _, _)
SelectFrom(phrases, S, i) ==
  IF i > Len(phrases) THEN <<>>
  ELSE IF i \in S THEN <<phrases[i]>> \o SelectFrom(phrases, S, i + 1)
  ELSE SelectFrom(phrases, S, i + 1)

Texts(k) ==
  {Join(SelectFrom(Phrases[k], S, 1)) :
     S \in {T \in SUBSET DOMAIN Phrases[k] : Cardinality(T) <= MaxPhrases}}

Catalogs ==
  [hiv |-> HIV_KEYWORDS,
   mh |-> MH_KEYWORDS,
   empty_rules |-> << [name |-> "c", weight |-> Float(50), patterns |-> <<>>] >>,
   zero_weight |-> << [name |-> "c", weight |-> Float(0), patterns |-> <<Lit("condom")>>] >>,
   overweight |-> << [name |-> "c", weight |-> Float(150),
                      patterns |-> <<Lit("condom")>>] >>]

InitScorer ==
  /\ pc = "score_input"
  /\ \/ \E k \in {"hiv", "mh"} : \E t1 \in Texts(k) : \E t2 \in Texts(k) :
          arg = [NoArg EXCEPT !.fn = "_keyword_score", !.keyword_dict = k,
                              !.text1 = t1, !.text2 = t2]
     \/ \E k \in {"empty_rules", "zero_weight", "overweight"} :
        \E t \in {"", "the condom slipped"} :
          arg = [NoArg EXCEPT !.fn = "_keyword_score", !.keyword_dict = k,
                              !.text1 = t, !.text2 = t]
  /\ conversation = ""
  /\ user_text = ""
  /\ hiv_score = Float(0)
  /\ mh_score = Float(0)
  /\ result = NoResult
  /\ ret = NoRet
  /\ hiv_triggered = {}
  /\ mh_triggered = {}

ScoreTexts ==
  /\ pc = "score_input"
  /\ pc' = "scored"
  /\ ret' = [NoRet EXCEPT !.fn = "_keyword_score",
                          !.score1 = _keyword_score(arg.text1, Catalogs[arg.keyword_dict]),
                          !.score2 = _keyword_score(arg.text2, Catalogs[arg.keyword_dict])]
  /\ UNCHANGED <<conversation, user_text, hiv_score, mh_score, result, arg,
                 hiv_triggered, mh_triggered>>

NextScorer == ScoreTexts

SpecScorer == InitScorer /\ [][NextScorer]_vars

(***************************************************************************)
(* Vocabulary of the properties.                                           *)
(***************************************************************************)
HivNames == {HIV_KEYWORDS[i].name : i \in DOMAIN HIV_KEYWORDS}
MhNames == {MH_KEYWORDS[i].name : i \in DOMAIN MH_KEYWORDS}

(* the weights of the reference catalogs, in hundredths *)
WeightHundredths ==
  [unprotected_sex |-> 45, sti_symptoms |-> 25, multiple_partners |-> 15,
   partner_hiv_positive_or_unknown |-> 25,
   depression |-> 25, anxiety |-> 20, suicidality_or_self_harm |-> 60,
   substance_use |-> 15]

RECURSIVE SumHundredths(_)
SumHundredths(S) ==
  IF S = {} THEN 0
  ELSE LET n == CHOOSE m \in S : TRUE
       IN WeightHundredths[n] + SumHundredths(S \ {n})

CappedHundredths(S) == IF SumHundredths(S) > 100 THEN 100 ELSE SumHundredths(S)

(* the score a dictionary gives to a set of triggered categories *)
RECURSIVE SumOfTriggered(_, _, _)
SumOfTriggered(keyword_dict, S, i) ==
  IF i = 0 THEN Float(0)
  ELSE IF keyword_dict[i].name \in S
       THEN FAdd(SumOfTriggered(keyword_dict, S, i - 1), keyword_dict[i].weight)
       ELSE SumOfTriggered(keyword_dict, S, i - 1)
ScoreOfTriggered(keyword_dict, S) ==
  FMin(SumOfTriggered(keyword_dict, S, Len(keyword_dict)), Float(100))

LevelRank == [low |-> 0, moderate |-> 1, high |-> 2]

MessageOf ==
  [hiv |-> [low |-> HivLow, moderate |-> HivModerate, high |-> HivHigh],
   mh |-> [low |-> MhLow, moderate |-> MhModerate, high |-> MhHigh]]

(* the lines of the conversation that contain the user marker *)
UserLines ==
  SelectSeq(SplitLines(conversation), LAMBDA line : Contains(line, "User:"))

(***************************************************************************)
(* C1: the score _keyword_score returns for either catalog lies in [0, 1], *)
(* and a text that triggers all four categories of a domain scores exactly *)
(* 1.0.                                                                    *)
(***************************************************************************)
C1_ScoreInUnitInterval ==
  pc = "done" =>
    LET hiv == hiv_triggered
        mh == mh_triggered
    IN
      /\ FLeq(Float(0), hiv_score) /\ FLeq(hiv_score, Float(100))
      /\ FLeq(Float(0), mh_score) /\ FLeq(mh_score, Float(100))
      /\ (hiv = HivNames => hiv_score = Float(100))
      /\ (mh = MhNames => mh_score = Float(100))

C1_Witness ==
  /\ pc = "done"
  /\ hiv_triggered = HivNames
  /\ SumHundredths(hiv_triggered) = 110
  /\ hiv_score = Float(100)

(***************************************************************************)
(* C3 as stated: a text that triggers exactly one category of a domain is  *)
(* never reported at level "high" for that domain.                         *)
(***************************************************************************)
C3_SingleCategoryNeverHigh ==
  pc = "done" =>
    LET hiv == hiv_triggered
        mh == mh_triggered
    IN
      /\ (Cardinality(hiv) = 1 => result.hiv_risk_level # "high")
      /\ (Cardinality(mh) = 1 => result.mental_health_risk_level # "high")

(***************************************************************************)
(* C3 amended: a single triggered category other than                     *)
(* suicidality_or_self_harm never gives "high"; suicidality_or_self_harm   *)
(* alone (0.60, the threshold of "high") does; every other "high" has at   *)
(* least two triggered categories of the domain.                           *)
(***************************************************************************)
C3_SingleCategoryHighOnlyForSuicidality ==
  pc = "done" =>
    LET hiv == hiv_triggered
        mh == mh_triggered
    IN
      /\ (Cardinality(hiv) = 1 => result.hiv_risk_level # "high")
      /\ (Cardinality(mh) = 1 /\ mh # {"suicidality_or_self_harm"}
            => result.mental_health_risk_level # "high")
      /\ (mh = {"suicidality_or_self_harm"}
            => result.mental_health_risk_level = "high")
      /\ (result.hiv_risk_level = "high" => Cardinality(hiv) >= 2)
      /\ (result.mental_health_risk_level = "high"
            => Cardinality(mh) >= 2 \/ mh = {"suicidality_or_self_harm"})

C3_Witness ==
  /\ pc = "done"
  /\ mh_triggered = {"suicidality_or_self_harm"}
  /\ mh_score = Float(60)
  /\ result.mental_health_risk_level = "high"

(***************************************************************************)
(* C4: a domain none of whose categories is triggered has score 0.0 and    *)
(* level "low"; a conversation without any user line is analysed to a      *)
(* result with score 0.0 and level "low" on both domains.                  *)
(***************************************************************************)
C4_NothingTriggeredIsZeroLow ==
  pc = "done" =>
    LET hiv == hiv_triggered
        mh == mh_triggered
    IN
      /\ (hiv = {} =>
            /\ hiv_score = Float(0)
            /\ result.hiv_risk_score = Float(0)
            /\ result.hiv_risk_level = "low")
      /\ (mh = {} =>
            /\ mh_score = Float(0)
            /\ result.mental_health_risk_score = Float(0)
            /\ result.mental_health_risk_level = "low")
      /\ (UserLines = <<>> =>
            /\ user_text = ""
            /\ result.hiv_risk_score = Float(0)
            /\ result.hiv_risk_level = "low"
            /\ result.mental_health_risk_score = Float(0)
            /\ result.mental_health_risk_level = "low")

C4_Witness ==
  /\ pc = "done"
  /\ conversation # ""
  /\ UserLines = <<>>
  /\ result.hiv_risk_score = Float(0)
  /\ result.mental_health_risk_level = "low"

(***************************************************************************)
(* C6: the user text is the space-joined sequence, in order, of the        *)
(* stripped remainders after the first "User:" of the lines that contain   *)
(* "User:".                                                                *)
(***************************************************************************)
RECURSIVE RemaindersAfterMarker(_)
RemaindersAfterMarker(lines) ==
  IF lines = <<>> THEN <<>>
  ELSE <<Strip(SplitOnce(Strip(Head(lines)), "User:"))>> \o RemaindersAfterMarker(Tail(lines))

C6_UserTextIsRemainderAfterFirstMarker ==
  pc = "done" => user_text = Join(RemaindersAfterMarker(UserLines))

(***************************************************************************)
(* C8: each domain is scored from its own categories only: the score of a  *)
(* domain is the score its catalog gives to the set of its triggered       *)
(* categories, and a text that triggers categories of one domain only      *)
(* scores 0.0 (level "low") on the other.                                  *)
(***************************************************************************)
C8_DomainsIndependent ==
  pc = "done" =>
    LET hiv == hiv_triggered
        mh == mh_triggered
    IN
      /\ hiv_score = ScoreOfTriggered(HIV_KEYWORDS, hiv)
      /\ mh_score = ScoreOfTriggered(MH_KEYWORDS, mh)
      /\ (hiv # {} /\ mh = {} =>
            result.mental_health_risk_score = Float(0)
            /\ result.mental_health_risk_level = "low")
      /\ (mh # {} /\ hiv = {} =>
            result.hiv_risk_score = Float(0) /\ result.hiv_risk_level = "low")

C8_Witness ==
  /\ pc = "done"
  /\ hiv_triggered = HivNames
  /\ mh_triggered = {}
  /\ result.hiv_risk_score = Float(100)
  /\ result.mental_health_risk_score = Float(0)

(***************************************************************************)
(* C9: the score is min(1.0, sum of the weights of the triggered           *)
(* categories), each triggered category counted once however many of its   *)
(* rules match; unprotected_sex with sti_symptoms gives 0.70 and "high".   *)
(***************************************************************************)
C9_ScoreIsCappedSumOfWeights ==
  pc = "done" =>
    LET hiv == hiv_triggered
        mh == mh_triggered
    IN
      /\ NearestHundredth(hiv_score) = CappedHundredths(hiv)
      /\ NearestHundredth(mh_score) = CappedHundredths(mh)
      /\ result.hiv_risk_score = Float(CappedHundredths(hiv))
      /\ result.mental_health_risk_score = Float(CappedHundredths(mh))
      /\ (hiv = {"unprotected_sex", "sti_symptoms"} =>
            result.hiv_risk_score = Float(70) /\ result.hiv_risk_level = "high")

C9_Witness ==
  /\ pc = "done"
  /\ hiv_triggered = {"unprotected_sex", "sti_symptoms"}
  /\ MatchCount(HIV_KEYWORDS[1], Lower(user_text)) >= 2
  /\ result.hiv_risk_score = Float(70)
  /\ result.hiv_risk_level = "high"

(***************************************************************************)
(* C10: in every result the recommendation of a domain is the message of   *)
(* that domain for the level in the record, and that level is the          *)
(* classification of the (rounded) score in the record.                    *)
(***************************************************************************)
C10_ResultConsistent ==
  pc = "done" =>
    /\ result.hiv_recommendation = MessageOf.hiv[result.hiv_risk_level]
    /\ result.mental_health_recommendation = MessageOf.mh[result.mental_health_risk_level]
    /\ result.hiv_risk_level = risk_level(result.hiv_risk_score)
    /\ result.mental_health_risk_level = risk_level(result.mental_health_risk_score)

C10_Witness ==
  /\ pc = "done"
  /\ mh_score # result.mental_health_risk_score
  /\ result.mental_health_risk_score = Float(95)
  /\ result.mental_health_risk_level = "high"
  /\ result.mental_health_recommendation = MhHigh
  /\ result.hiv_risk_level = "low"
  /\ result.hiv_recommendation = HivLow

(***************************************************************************)
(* C2: risk_level gives "low" below 0.30, "moderate" from 0.30 to below    *)
(* 0.60 and "high" from 0.60 on, and both recommendation generators pick   *)
(* their message by the same thresholds.                                   *)
(***************************************************************************)
ExpectedLevel(a) ==
  IF a.h < 30 \/ (a.h = 30 /\ a.d < 0) THEN "low"
  ELSE IF a.h < 60 \/ (a.h = 60 /\ a.d < 0) THEN "moderate"
  ELSE "high"

C2_LevelThresholds ==
  pc = "level_done" =>
    /\ (ret.fn = "risk_level" => ret.level = ExpectedLevel(arg))
    /\ (ret.fn = "generate_hiv_recommendation"
          => ret.message = MessageOf.hiv[ExpectedLevel(arg)])
    /\ (ret.fn = "generate_mental_health_recommendation"
          => ret.message = MessageOf.mh[ExpectedLevel(arg)])
    /\ (ret.fn = "risk_level" /\ arg.d = 0 =>
          /\ (arg.h = 29 => ret.level = "low")
          /\ (arg.h = 30 => ret.level = "moderate")
          /\ (arg.h = 59 => ret.level = "moderate")
          /\ (arg.h = 60 => ret.level = "high"))

C2_Witness ==
  /\ pc = "level_done"
  /\ ret.fn = "risk_level"
  /\ arg.h = 60
  /\ arg.d = 0
  /\ ret.level = "high"

(***************************************************************************)
(* C5: under either catalog, if the categories one text triggers are among *)
(* those another text triggers, the first score is at most the second, and *)
(* so is the level.                                                        *)
(***************************************************************************)
C5_ScoreMonotonic ==
  pc = "scored" /\ arg.keyword_dict \in {"hiv", "mh"}
    /\ TriggeredNames(Catalogs[arg.keyword_dict], arg.text1)
         \subseteq TriggeredNames(Catalogs[arg.keyword_dict], arg.text2)
  => /\ FLeq(ret.score1, ret.score2)
     /\ LevelRank[risk_level(ret.score1)] <= LevelRank[risk_level(ret.score2)]

C5_Witness ==
  /\ pc = "scored"
  /\ arg.keyword_dict = "mh"
  /\ TriggeredNames(MH_KEYWORDS, arg.text1) = {"suicidality_or_self_harm"}
  /\ TriggeredNames(MH_KEYWORDS, arg.text2) = {"depression", "suicidality_or_self_harm"}
  /\ ret.score1 = Float(60)
  /\ ret.score2 = Float(85)

(***************************************************************************)
(* C7: no score is computed from a catalog that has a category with an     *)
(* empty rule set or with a weight outside (0, 1].                         *)
(***************************************************************************)
ValidCatalog(keyword_dict) ==
  \A i \in DOMAIN keyword_dict :
    /\ keyword_dict[i].patterns # <<>>
    /\ FLess(Float(0), keyword_dict[i].weight)
    /\ FLeq(keyword_dict[i].weight, Float(100))

C7_InvalidCatalogNeverScored ==
  pc = "scored" => ValidCatalog(Catalogs[arg.keyword_dict])

====
